---- MODULE Spec2Model ----
(***************************************************************************)
(* Model of the SuSFS control-channel client of ksud                       *)
(* (userspace/ksud/src/android/susfs/cli.rs).                              *)
(*                                                                         *)
(* One run of the model is one invocation of susfs_cli: a match arm        *)
(* validates its inputs and builds a record, susfs_ctl issues the          *)
(* syscall, the kernel side may or may not write into the memory it was    *)
(* handed, handle_result (and, for Show, the text decoding) finishes.      *)
(*                                                                         *)
(* Representation                                                          *)
(*  - a string or a byte buffer is a sequence of bytes 0..255;             *)
(*  - a 64-bit integer is its bit pattern, a sequence of four 16-bit       *)
(*    limbs, least significant first; a 32-bit integer is two limbs;       *)
(*  - Option<T> / Result<T, E> are <<>> (None / Err) or <<v>> (Some / Ok)  *)
(*    unless a record says otherwise.                                      *)
(***************************************************************************)
EXTENDS Integers, Sequences, FiniteSets, TLC

(***************************************************************************)
(* Program constants (cli.rs:10-37)                                        *)
(***************************************************************************)
Base == 65536

\* 0xDEADBEEF as c_ulong
KSU_INSTALL_MAGIC1 == <<48879, 57005, 0, 0>>

\* 0xFAFAFAFA as c_ulong
SUSFS_MAGIC == <<64250, 64250, 0, 0>>

\* 0x55550
CMD_SUSFS_ADD_SUS_PATH == 349520

\* 0x55551
CMD_SUSFS_SET_ANDROID_DATA_ROOT_PATH == 349521

\* 0x55552
CMD_SUSFS_SET_SDCARD_ROOT_PATH == 349522

\* the identifier of add_sus_path pasted for add_sus_path_loop
CMD_SUSFS_ADD_SUS_PATH_LOOP_Reused == CMD_SUSFS_ADD_SUS_PATH

\* 0x55553
CMD_SUSFS_ADD_SUS_PATH_LOOP == 349523

\* 0x55561
CMD_SUSFS_HIDE_SUS_MNTS_FOR_NON_SU_PROCS == 349537

\* 0x55570
CMD_SUSFS_ADD_SUS_KSTAT == 349552

\* 0x55571
CMD_SUSFS_UPDATE_SUS_KSTAT == 349553

\* 0x55572
CMD_SUSFS_ADD_SUS_KSTAT_STATICALLY == 349554

\* 0x55590
CMD_SUSFS_SET_UNAME == 349584

\* 0x555a0
CMD_SUSFS_ENABLE_LOG == 349600

\* 0x555b0
CMD_SUSFS_SET_CMDLINE_OR_BOOTCONFIG == 349616

\* 0x555c0
CMD_SUSFS_ADD_OPEN_REDIRECT == 349632

\* 0x555e1
CMD_SUSFS_SHOW_VERSION == 349665

\* 0x555e2
CMD_SUSFS_SHOW_ENABLED_FEATURES == 349666

\* 0x555e3
CMD_SUSFS_SHOW_VARIANT == 349667

\* 0x60010
CMD_SUSFS_ENABLE_AVC_LOG_SPOOFING == 393232

\* 0x60020
CMD_SUSFS_ADD_SUS_MAP == 393248

SUSFS_MAX_LEN_PATHNAME == 256

SUSFS_FAKE_CMDLINE_OR_BOOTCONFIG_SIZE == 8192

SUSFS_ENABLED_FEATURES_SIZE == 8192

SUSFS_MAX_VERSION_BUFSIZE == 16

SUSFS_MAX_VARIANT_BUFSIZE == 16

NEW_UTS_LEN == 64

ERR_CMD_NOT_SUPPORTED == 126

\* libc::EINVAL
EINVAL == 22

\* exit status of a Rust process whose main thread panicked
PANIC_EXIT == 101

(***************************************************************************)
(* Bytes and strings                                                       *)
(***************************************************************************)
Min(a, b) == IF a <= b THEN a ELSE b

\* [0; N]
Zeroed(N) == [i \in 1..N |-> 0]

\* "default"
STR_DEFAULT == <<100, 101, 102, 97, 117, 108, 116>>

\* '0', '+', '-'
CH_0 == 48

CH_PLUS == 43

CH_MINUS == 45

(***************************************************************************)
(* 64-bit and 32-bit integers as limb sequences                            *)
(***************************************************************************)
\* a small natural as u64 / i64
U64(n) == <<n % Base, n \div Base, 0, 0>>

\* a small natural as u32
U32(n) == <<n % Base, n \div Base>>

ZERO64 == <<0, 0, 0, 0>>

\* l * m + a for a 64-bit l and small m, a: the low 64 bits and the carry out
MulAdd(l, m, a) ==
    LET t1 == l[1] * m + a
        t2 == l[2] * m + (t1 \div Base)
        t3 == l[3] * m + (t2 \div Base)
        t4 == l[4] * m + (t3 \div Base)
    IN  [limbs |-> <<t1 % Base, t2 % Base, t3 % Base, t4 % Base>>,
         carry |-> t4 \div Base]

\* l divided by a small d: quotient and remainder
DivSmall(l, d) ==
    LET r4 == l[4]
        r3 == (r4 % d) * Base + l[3]
        r2 == (r3 % d) * Base + l[2]
        r1 == (r2 % d) * Base + l[1]
    IN  [quot |-> <<r1 \div d, r2 \div d, r3 \div d, r4 \div d>>,
         rem |-> r1 % d]

\* two's complement negation (wrapping_neg)
Neg64(l) ==
    LET n == [i \in 1..4 |-> Base - 1 - l[i]]
    IN  MulAdd(n, 1, 1).limbs

\* sign bit of an i64 bit pattern
IsNeg64(l) == l[4] >= 32768

(***************************************************************************)
(* str::parse::<u64>() / str::parse::<i64>() and Display for u64 / i64     *)
(* (core::num, radix 10)                                                   *)
(***************************************************************************)
IsDigit(c) == c >= CH_0 /\ c <= CH_0 + 9

\* the digit loop with checked_mul / checked_add on the magnitude:
\* <<>> on an invalid digit or when the magnitude leaves 64 bits
RECURSIVE ParseDigits(_, _, _)
ParseDigits(s, i, acc) ==
    IF i > Len(s) THEN <<acc>>
    ELSE IF ~IsDigit(s[i]) THEN <<>>
    ELSE LET r == MulAdd(acc, 10, s[i] - CH_0)
         IN  IF r.carry # 0 THEN <<>> ELSE ParseDigits(s, i + 1, r.limbs)

\* val.parse::<u64>(): Ok(v) is <<v>>, Err(_) is <<>>
ParseU64(s) ==
    IF Len(s) = 0 THEN <<>>
    ELSE IF Len(s) = 1 /\ s[1] \in {CH_PLUS, CH_MINUS} THEN <<>>
    ELSE IF s[1] = CH_PLUS THEN ParseDigits(s, 2, ZERO64)
    ELSE ParseDigits(s, 1, ZERO64)

\* val.parse::<i64>(): Ok(v) is <<bit pattern of v>>, Err(_) is <<>>
ParseI64(s) ==
    IF Len(s) = 0 THEN <<>>
    ELSE IF Len(s) = 1 /\ s[1] \in {CH_PLUS, CH_MINUS} THEN <<>>
    ELSE IF s[1] = CH_MINUS
         THEN LET m == ParseDigits(s, 2, ZERO64)
              IN  IF m = <<>> THEN <<>>
                  ELSE IF IsNeg64(m[1]) /\ m[1] # <<0, 0, 0, 32768>> THEN <<>>
                  ELSE <<Neg64(m[1])>>
         ELSE LET m == ParseDigits(s, IF s[1] = CH_PLUS THEN 2 ELSE 1, ZERO64)
              IN  IF m = <<>> THEN <<>>
                  ELSE IF IsNeg64(m[1]) THEN <<>>
                  ELSE m

\* decimal digits of a nonzero magnitude, most significant first
RECURSIVE Digits(_)
Digits(l) ==
    IF l = ZERO64 THEN <<>>
    ELSE LET d == DivSmall(l, 10)
         IN  Append(Digits(d.quot), CH_0 + d.rem)

\* u64::to_string()
FormatU64(l) == IF l = ZERO64 THEN <<CH_0>> ELSE Digits(l)

\* i64::to_string()
FormatI64(l) == IF IsNeg64(l) THEN <<CH_MINUS>> \o Digits(Neg64(l)) ELSE FormatU64(l)

(***************************************************************************)
(* Integer casts of the target (LP64: c_ulong, c_long, c_longlong and      *)
(* c_ulonglong are 64 bits wide, c_uint and c_int are 32 bits wide)        *)
(***************************************************************************)
\* `x as c_ulong`, `x as c_long`, `x as c_longlong`, `x as c_ulonglong` of a 64-bit x
As64(x) == x

\* a cast to c_uint that saturates (u32::try_from(x).unwrap_or(u32::MAX))
AsCUInt_Saturating(x) ==
    IF x[3] # 0 \/ x[4] # 0 THEN <<Base - 1, Base - 1>> ELSE SubSeq(x, 1, 2)

\* `x as c_uint` of a 64-bit x: the low 32 bits
AsCUInt(x) == SubSeq(x, 1, 2)

(***************************************************************************)
(* Bounds of the model                                                     *)
(***************************************************************************)
\* strings are tried up to this many bytes beyond a buffer's capacity
MaxOver == 1

\* number of byte patterns tried per string length
MaxSeed == 1

\* number of ordinary metadata samples
MaxMd == 1

\* largest value tried for an `enabled: u8` argument
MaxEnabled == 3

\* kernel-reported statuses tried besides 0 and 126 are -MaxErrno..-1 and 1, 256
MaxErrno == 1

(***************************************************************************)
(* Inputs: strings, file contents, filesystem metadata                     *)
(***************************************************************************)
\* a command-line string or canonical path of len bytes (argv strings and
\* paths hold no zero byte)
Str(len, seed) == [i \in 1..len |-> 97 + ((i * seed) % 5)]

\* lengths around a buffer of capacity N
LensAround(N) == {1} \cup ((N - 2)..(N + MaxOver))

StringsAround(N) == {Str(len, seed) : len \in LensAround(N), seed \in 1..MaxSeed}

\* a file's content: any bytes, zero bytes included
Content(len, seed) == [i \in 1..len |-> (i * seed) % 3]

Contents ==
    {Content(len, seed) :
        len \in {0, 2} \cup ((SUSFS_FAKE_CMDLINE_OR_BOOTCONFIG_SIZE - 1)
                             ..(SUSFS_FAKE_CMDLINE_OR_BOOTCONFIG_SIZE + MaxOver)),
        seed \in 1..MaxSeed}

\* fs::Metadata as read through MetadataExt: ino, dev, nlink, size, blksize,
\* blocks are u64, the timestamps are i64, uid is u32.  The link count of a
\* Linux inode is 32 bits wide and a file size is below 2^63.
MdSample(k) ==
    [ino |-> U64(1000 + k), dev |-> U64(2000 + k), nlink |-> U64(k),
     size |-> U64(3000 + k),
     atime |-> U64(4000 + k), atime_nsec |-> U64(5000 + k),
     mtime |-> U64(6000 + k), mtime_nsec |-> U64(7000 + k),
     ctime |-> U64(8000 + k), ctime_nsec |-> U64(9000 + k),
     blksize |-> U64(4096), blocks |-> U64(8 * k), uid |-> U32(10000 + k)]

\* metadata at the edges of the field widths (a timestamp before 1970)
MdWide ==
    [ino |-> <<65535, 65535, 65535, 65535>>, dev |-> <<1, 2, 3, 4>>,
     nlink |-> <<65535, 65535, 0, 0>>,
     size |-> <<65535, 65535, 65535, 32767>>,
     atime |-> <<65535, 65535, 65535, 65535>>, atime_nsec |-> U64(999999999),
     mtime |-> <<0, 0, 1, 0>>, mtime_nsec |-> U64(1),
     ctime |-> <<65534, 65535, 65535, 65535>>, ctime_nsec |-> U64(2),
     blksize |-> <<0, 0, 0, 1>>, blocks |-> <<5, 0, 1, 0>>,
     uid |-> <<65535, 65535>>]

Metadatas == {MdSample(k) : k \in 1..MaxMd} \cup {MdWide}

\* io::Error: raw_os_error() is Some(errno) (ENOENT, EACCES) or None
IoErrors == {[raw |-> <<2>>], [raw |-> <<13>>], [raw |-> <<>>]}

\* io::Result<fs::Metadata>
MetadataResults ==
    {[ok |-> TRUE, md |-> m] : m \in Metadatas}
        \cup {[ok |-> FALSE, e |-> e] : e \in IoErrors}

\* e.raw_os_error().unwrap_or(1)
RawOsErrorOr1(e) == IF e.raw = <<>> THEN 1 ELSE e.raw[1]

(***************************************************************************)
(* Records (cli.rs:135-310) and their Default impls                        *)
(***************************************************************************)
SusfsSusPathDefault ==
    [target_ino |-> ZERO64, target_pathname |-> Zeroed(SUSFS_MAX_LEN_PATHNAME),
     i_uid |-> U32(0), err |-> 0]

ExternalDirDefault ==
    [target_pathname |-> Zeroed(SUSFS_MAX_LEN_PATHNAME), is_inited |-> FALSE,
     cmd |-> 0, err |-> 0]

\* #[derive(Default)] of SusfsHideSusMnts, SusfsLog, SusfsAvcLogSpoofing
EnabledDefault == [enabled |-> FALSE, err |-> 0]

SusfsSusKstatDefault ==
    [is_statically |-> FALSE, target_ino |-> ZERO64,
     target_pathname |-> Zeroed(SUSFS_MAX_LEN_PATHNAME),
     spoofed_ino |-> ZERO64, spoofed_dev |-> ZERO64, spoofed_nlink |-> U32(0),
     spoofed_size |-> ZERO64,
     spoofed_atime_tv_sec |-> ZERO64, spoofed_mtime_tv_sec |-> ZERO64,
     spoofed_ctime_tv_sec |-> ZERO64,
     spoofed_atime_tv_nsec |-> ZERO64, spoofed_mtime_tv_nsec |-> ZERO64,
     spoofed_ctime_tv_nsec |-> ZERO64,
     spoofed_blksize |-> ZERO64, spoofed_blocks |-> ZERO64, err |-> 0]

SusfsUnameDefault ==
    [release |-> Zeroed(NEW_UTS_LEN + 1), version |-> Zeroed(NEW_UTS_LEN + 1),
     err |-> 0]

SusfsOpenRedirectDefault ==
    [target_ino |-> ZERO64, target_pathname |-> Zeroed(SUSFS_MAX_LEN_PATHNAME),
     redirected_pathname |-> Zeroed(SUSFS_MAX_LEN_PATHNAME), err |-> 0]

SusfsSusMapDefault ==
    [target_pathname |-> Zeroed(SUSFS_MAX_LEN_PATHNAME), err |-> 0]

(***************************************************************************)
(* Helpers (cli.rs:324-379)                                                *)
(***************************************************************************)
\* str_to_c_array that cuts at N instead of N - 1 and leaves a full buffer
\* without its zero byte
str_to_c_array_NoRoom(s, array) ==
    LET N == Len(array)
        len == Min(Len(s), N)
    IN  [i \in 1..N |-> IF i <= len THEN s[i]
                        ELSE IF i = len + 1 THEN 0
                        ELSE array[i]]

\* str_to_c_array::<N>(s, &mut array): the array after the call
str_to_c_array(s, array) ==
    LET N == Len(array)
        len == Min(Len(s), N - 1)
    IN  [i \in 1..N |-> IF i <= len THEN s[i]
                        ELSE IF i = len + 1 THEN 0
                        ELSE array[i]]

\* copy_metadata_to_sus_kstat with the nanoseconds of atime and mtime crossed
copy_metadata_to_sus_kstat_Crossed(info, md) ==
    [info EXCEPT !.spoofed_ino = As64(md.ino),
                 !.spoofed_dev = As64(md.dev),
                 !.spoofed_nlink = AsCUInt(md.nlink),
                 !.spoofed_size = As64(md.size),
                 !.spoofed_atime_tv_sec = As64(md.atime),
                 !.spoofed_mtime_tv_sec = As64(md.mtime),
                 !.spoofed_ctime_tv_sec = As64(md.ctime),
                 !.spoofed_atime_tv_nsec = As64(md.mtime_nsec),
                 !.spoofed_mtime_tv_nsec = As64(md.atime_nsec),
                 !.spoofed_ctime_tv_nsec = As64(md.ctime_nsec),
                 !.spoofed_blksize = As64(md.blksize),
                 !.spoofed_blocks = As64(md.blocks)]

\* copy_metadata_to_sus_kstat(&mut info, &md): info after the call
copy_metadata_to_sus_kstat(info, md) ==
    [info EXCEPT !.spoofed_ino = As64(md.ino),
                 !.spoofed_dev = As64(md.dev),
                 !.spoofed_nlink = AsCUInt(md.nlink),
                 !.spoofed_size = As64(md.size),
                 !.spoofed_atime_tv_sec = As64(md.atime),
                 !.spoofed_mtime_tv_sec = As64(md.mtime),
                 !.spoofed_ctime_tv_sec = As64(md.ctime),
                 !.spoofed_atime_tv_nsec = As64(md.atime_nsec),
                 !.spoofed_mtime_tv_nsec = As64(md.mtime_nsec),
                 !.spoofed_ctime_tv_nsec = As64(md.ctime_nsec),
                 !.spoofed_blksize = As64(md.blksize),
                 !.spoofed_blocks = As64(md.blocks)]

\* handle_result that reports every kernel error as exit(1)
handle_result_ExitOne(err, cmd) ==
    [printed |-> IF err = ERR_CMD_NOT_SUPPORTED
                 THEN <<[stream |-> "stdout", msg |-> "not supported", cmd |-> cmd]>>
                 ELSE <<>>,
     exit |-> IF err # 0 /\ err # ERR_CMD_NOT_SUPPORTED THEN <<1>> ELSE <<>>]

\* handle_result(err, cmd): what it prints and whether (and with what) it exits
handle_result(err, cmd) ==
    [printed |-> IF err = ERR_CMD_NOT_SUPPORTED
                 THEN <<[stream |-> "stdout", msg |-> "not supported", cmd |-> cmd]>>
                 ELSE <<>>,
     exit |-> IF err # 0 /\ err # ERR_CMD_NOT_SUPPORTED THEN <<err>> ELSE <<>>]

\* parse_or_default that parses every literal as u64, whatever T is
parse_or_default_U64Only(val, default, T) ==
    IF val = STR_DEFAULT THEN <<default>> ELSE ParseU64(val)

\* parse_or_default::<T>(val, default): <<v>>, or <<>> when it exits with EINVAL;
\* T is the type of the default (u64 or i64)
parse_or_default(val, default, T) ==
    IF val = STR_DEFAULT THEN <<default>>
    ELSE IF T = "i64" THEN ParseI64(val) ELSE ParseU64(val)

(***************************************************************************)
(* String::from_utf8 (core::str::from_utf8 validation)                     *)
(***************************************************************************)
IsCont(x) == x >= 128 /\ x <= 191

\* length of the sequence a lead byte announces, 0 for a byte that cannot lead
Utf8Width(x) ==
    IF x < 128 THEN 1
    ELSE IF x >= 194 /\ x <= 223 THEN 2
    ELSE IF x >= 224 /\ x <= 239 THEN 3
    ELSE IF x >= 240 /\ x <= 244 THEN 4
    ELSE 0

\* range of the byte after the lead (no overlong forms, no surrogates, <= U+10FFFF)
Utf8SecondOk(lead, x) ==
    CASE lead = 224 -> x >= 160 /\ x <= 191
      [] lead = 237 -> x >= 128 /\ x <= 159
      [] lead = 240 -> x >= 144 /\ x <= 191
      [] lead = 244 -> x >= 128 /\ x <= 143
      [] OTHER -> IsCont(x)

ValidUtf8(b) ==
    \A i \in 1..Len(b) :
        IF IsCont(b[i])
        THEN \E j \in 1..3 :
                /\ i - j >= 1
                /\ ~IsCont(b[i - j])
                /\ Utf8Width(b[i - j]) > j
                /\ \A k \in 1..(j - 1) : IsCont(b[i - k])
        ELSE LET w == Utf8Width(b[i])
             IN  /\ w > 0
                 /\ i + w - 1 <= Len(b)
                 /\ w >= 2 => Utf8SecondOk(b[i], b[i + 1])
                 /\ \A k \in 2..(w - 1) : IsCont(b[i + k])

\* "<invalid>"
STR_INVALID == <<60, 105, 110, 118, 97, 108, 105, 100, 62>>

\* "unsupport"
STR_UNSUPPORT == <<117, 110, 115, 117, 112, 112, 111, 114, 116>>

\* 'v'
CH_V == 118

\* buf.iter().position(|&b| b == 0).unwrap_or(N) and buf[..len]: the bytes
\* before the first zero byte, the whole buffer when it holds none
BytesToNul(buf) ==
    LET zeros == {i \in 1..Len(buf) : buf[i] = 0}
        len == IF zeros = {} THEN Len(buf)
               ELSE (CHOOSE i \in zeros : \A j \in zeros : i <= j) - 1
    IN  SubSeq(buf, 1, len)

\* text decoding that keeps the bytes as they are, valid text or not
DecodeText_Unchecked(buf) == BytesToNul(buf)

\* String::from_utf8(bytes).unwrap_or_else(|_| "<invalid>".to_string())
DecodeText(buf) ==
    LET bytes == BytesToNul(buf)
    IN  IF ValidUtf8(bytes) THEN bytes ELSE STR_INVALID

(***************************************************************************)
(* Operations and the command each arm of susfs_cli sends                  *)
(***************************************************************************)
PathOps == {"AddSusPath", "AddSusPathLoop"}

ExternalDirOps == {"SetAndroidDataRootPath", "SetSdcardRootPath"}

EnableOps == {"HideSusMntsForNonSuProcs", "EnableLog", "EnableAvcLogSpoofing"}

DynamicKstatOps == {"AddSusKstat", "UpdateSusKstat", "UpdateSusKstatFullClone"}

ShowOps == {"ShowVersion", "ShowEnabledFeatures", "ShowVariant"}

Operations ==
    PathOps \cup ExternalDirOps \cup EnableOps \cup DynamicKstatOps \cup ShowOps
        \cup {"SetUname", "SetCmdlineOrBootconfig", "AddOpenRedirect", "AddSusMap",
              "AddSusKstatStatically"}

\* the cmd argument of the arm's susfs_ctl and handle_result calls
CmdOf(o) ==
    CASE o = "AddSusPath" -> CMD_SUSFS_ADD_SUS_PATH
      [] o = "AddSusPathLoop" -> CMD_SUSFS_ADD_SUS_PATH_LOOP
      [] o = "SetAndroidDataRootPath" -> CMD_SUSFS_SET_ANDROID_DATA_ROOT_PATH
      [] o = "SetSdcardRootPath" -> CMD_SUSFS_SET_SDCARD_ROOT_PATH
      [] o = "HideSusMntsForNonSuProcs" -> CMD_SUSFS_HIDE_SUS_MNTS_FOR_NON_SU_PROCS
      [] o = "AddSusKstat" -> CMD_SUSFS_ADD_SUS_KSTAT
      [] o = "UpdateSusKstat" -> CMD_SUSFS_UPDATE_SUS_KSTAT
      [] o = "UpdateSusKstatFullClone" -> CMD_SUSFS_UPDATE_SUS_KSTAT
      [] o = "SetUname" -> CMD_SUSFS_SET_UNAME
      [] o = "EnableLog" -> CMD_SUSFS_ENABLE_LOG
      [] o = "SetCmdlineOrBootconfig" -> CMD_SUSFS_SET_CMDLINE_OR_BOOTCONFIG
      [] o = "AddOpenRedirect" -> CMD_SUSFS_ADD_OPEN_REDIRECT
      [] o = "AddSusMap" -> CMD_SUSFS_ADD_SUS_MAP
      [] o = "EnableAvcLogSpoofing" -> CMD_SUSFS_ENABLE_AVC_LOG_SPOOFING
      [] o = "ShowVersion" -> CMD_SUSFS_SHOW_VERSION
      [] o = "ShowEnabledFeatures" -> CMD_SUSFS_SHOW_ENABLED_FEATURES
      [] o = "ShowVariant" -> CMD_SUSFS_SHOW_VARIANT
      [] o = "AddSusKstatStatically" -> CMD_SUSFS_ADD_SUS_KSTAT_STATICALLY

\* what the `info` argument of the arm's susfs_ctl call points to: the record
\* ("record"), or the Box that owns the record ("box": `&mut info` of a
\* Box<SusfsSpoofCmdline>, where the enabled-features arm passes `&mut *info`)
ArgOf(o) == IF o = "SetCmdlineOrBootconfig" THEN "box" ELSE "record"

(***************************************************************************)
(* State                                                                   *)
(***************************************************************************)
VARIABLES
    pc,          \* "start", "built" (record ready), "sent" (syscall returned), "decoded"
    op,          \* the subcommand being run, "none" before the match
    input,       \* the arguments and the environment's answers the arm consumed
    info,        \* the arm's record
    calls,       \* the syscalls issued so far
    kernelWrote, \* the callee wrote into the record
    stray,       \* the callee wrote into memory that is not the record
    statusRead,  \* the values of info.err handed to handle_result
    out,         \* what was printed, in order
    outcome,     \* "running", "returned" (susfs_cli returned), "exited"
    exitArg,     \* the argument of exit() when outcome = "exited"
    cfgFile,     \* umount.rs: the file at defs::UMOUNT_CONFIG_PATH
    umountList,  \* umount.rs: the kernel's umount list (path -> flags)
    requested,   \* umount.rs: the initial file map with the successful add/del calls applied
    ucall,       \* umount.rs: the last function called, "none" before the first
    ures,        \* umount.rs: its result, "Ok" or "Err"
    replayed,    \* umount.rs: the entries the last load_umount_config added
    replayCount  \* umount.rs: `count` of the last load_umount_config

\* the variables of susfs_cli
svars == <<pc, op, input, info, calls, kernelWrote, stray, statusRead, out, outcome, exitArg>>

\* the variables of umount.rs
uvars == <<cfgFile, umountList, requested, ucall, ures, replayed, replayCount>>

vars == <<svars, uvars>>

\* the empty HashMap
EmptyMap == [x \in {} |-> 0]

\* no umount function has run and there is no config file
UmountIdle ==
    /\ cfgFile = [kind |-> "missing", paths |-> EmptyMap]
    /\ umountList = EmptyMap
    /\ requested = EmptyMap
    /\ ucall = "none"
    /\ ures = "none"
    /\ replayed = {}
    /\ replayCount = 0

NoRecord == [none |-> TRUE]

Init ==
    /\ pc = "start"
    /\ op = "none"
    /\ input = [none |-> TRUE]
    /\ info = NoRecord
    /\ calls = <<>>
    /\ kernelWrote = FALSE
    /\ stray = FALSE
    /\ statusRead = <<>>
    /\ out = <<>>
    /\ outcome = "running"
    /\ exitArg = 0
    /\ UmountIdle

Entry == pc = "start" /\ outcome = "running"

\* the arm leaves through exit(code) before its record is sent
LocalExit(o, inp, code, msgs) ==
    /\ op' = o
    /\ input' = inp
    /\ outcome' = "exited"
    /\ exitArg' = code
    /\ out' = out \o msgs
    /\ UNCHANGED <<pc, info, calls, kernelWrote, stray, statusRead>>
    /\ UNCHANGED uvars

\* the arm has built its record and reaches its susfs_ctl call
Built(o, inp, rec) ==
    /\ op' = o
    /\ input' = inp
    /\ info' = rec
    /\ pc' = "built"
    /\ UNCHANGED <<calls, kernelWrote, stray, statusRead, out, outcome, exitArg>>
    /\ UNCHANGED uvars

\* eprintln!(...)
Eprintln(m) == <<[stream |-> "stderr", msg |-> m]>>

\* fetch_metadata's failure branch: the message and exit(e.raw_os_error().unwrap_or(1))
FetchMetadataExit(o, inp, e) ==
    LocalExit(o, inp, RawOsErrorOr1(e), Eprintln("Failed to get metadata from path"))

(***************************************************************************)
(* The arms of susfs_cli up to their susfs_ctl call                        *)
(***************************************************************************)
AddSusPath(path, mdr) ==
    /\ Entry
    /\ LET inp == [path |-> path, mdr |-> mdr]
       IN  IF ~mdr.ok THEN FetchMetadataExit("AddSusPath", inp, mdr.e)
           ELSE Built("AddSusPath", inp,
                  [SusfsSusPathDefault EXCEPT
                      !.target_pathname = str_to_c_array(path, @),
                      !.target_ino = As64(mdr.md.ino),
                      !.i_uid = mdr.md.uid,
                      !.err = ERR_CMD_NOT_SUPPORTED])

AddSusPathLoop(path, mdr) ==
    /\ Entry
    /\ LET inp == [path |-> path, mdr |-> mdr]
       IN  IF ~mdr.ok THEN FetchMetadataExit("AddSusPathLoop", inp, mdr.e)
           ELSE Built("AddSusPathLoop", inp,
                  [SusfsSusPathDefault EXCEPT
                      !.target_pathname = str_to_c_array(path, @),
                      !.target_ino = As64(mdr.md.ino),
                      !.i_uid = mdr.md.uid,
                      !.err = ERR_CMD_NOT_SUPPORTED])

SetAndroidDataRootPath(path) ==
    /\ Entry
    /\ Built("SetAndroidDataRootPath", [path |-> path],
          [ExternalDirDefault EXCEPT
              !.target_pathname = str_to_c_array(path, @),
              !.cmd = CMD_SUSFS_SET_ANDROID_DATA_ROOT_PATH,
              !.err = ERR_CMD_NOT_SUPPORTED])

SetSdcardRootPath(path) ==
    /\ Entry
    /\ Built("SetSdcardRootPath", [path |-> path],
          [ExternalDirDefault EXCEPT
              !.target_pathname = str_to_c_array(path, @),
              !.cmd = CMD_SUSFS_SET_SDCARD_ROOT_PATH,
              !.err = ERR_CMD_NOT_SUPPORTED])

\* the arm without its `if enabled > 1` check
HideSusMntsForNonSuProcs_NoCheck(enabled) ==
    /\ Entry
    /\ Built("HideSusMntsForNonSuProcs", [enabled |-> enabled],
          [EnabledDefault EXCEPT !.enabled = (enabled = 1),
                                 !.err = ERR_CMD_NOT_SUPPORTED])

HideSusMntsForNonSuProcs(enabled) ==
    /\ Entry
    /\ LET inp == [enabled |-> enabled]
       IN  IF enabled > 1
           THEN LocalExit("HideSusMntsForNonSuProcs", inp, 1,
                          Eprintln("Invalid value for enabled (0 or 1)"))
           ELSE Built("HideSusMntsForNonSuProcs", inp,
                  [EnabledDefault EXCEPT !.enabled = (enabled = 1),
                                         !.err = ERR_CMD_NOT_SUPPORTED])

AddSusKstat(path, mdr) ==
    /\ Entry
    /\ LET inp == [path |-> path, mdr |-> mdr]
       IN  IF ~mdr.ok THEN FetchMetadataExit("AddSusKstat", inp, mdr.e)
           ELSE Built("AddSusKstat", inp,
                  [copy_metadata_to_sus_kstat(
                      [SusfsSusKstatDefault EXCEPT
                          !.target_pathname = str_to_c_array(path, @),
                          !.is_statically = FALSE,
                          !.target_ino = As64(mdr.md.ino)],
                      mdr.md)
                   EXCEPT !.err = ERR_CMD_NOT_SUPPORTED])

UpdateSusKstat(path, mdr) ==
    /\ Entry
    /\ LET inp == [path |-> path, mdr |-> mdr]
       IN  IF ~mdr.ok THEN FetchMetadataExit("UpdateSusKstat", inp, mdr.e)
           ELSE Built("UpdateSusKstat", inp,
                  [SusfsSusKstatDefault EXCEPT
                      !.target_pathname = str_to_c_array(path, @),
                      !.is_statically = FALSE,
                      !.target_ino = As64(mdr.md.ino),
                      !.spoofed_size = As64(mdr.md.size),
                      !.spoofed_blocks = As64(mdr.md.blocks),
                      !.err = ERR_CMD_NOT_SUPPORTED])

UpdateSusKstatFullClone(path, mdr) ==
    /\ Entry
    /\ LET inp == [path |-> path, mdr |-> mdr]
       IN  IF ~mdr.ok THEN FetchMetadataExit("UpdateSusKstatFullClone", inp, mdr.e)
           ELSE Built("UpdateSusKstatFullClone", inp,
                  [SusfsSusKstatDefault EXCEPT
                      !.target_pathname = str_to_c_array(path, @),
                      !.is_statically = FALSE,
                      !.target_ino = As64(mdr.md.ino),
                      !.err = ERR_CMD_NOT_SUPPORTED])

SetUname(release, version) ==
    /\ Entry
    /\ Built("SetUname", [release |-> release, version |-> version],
          [SusfsUnameDefault EXCEPT
              !.release = str_to_c_array(release, @),
              !.version = str_to_c_array(version, @),
              !.err = ERR_CMD_NOT_SUPPORTED])

EnableLog(enabled) ==
    /\ Entry
    /\ LET inp == [enabled |-> enabled]
       IN  IF enabled > 1
           THEN LocalExit("EnableLog", inp, 1,
                          Eprintln("Invalid value for enabled (0 or 1)"))
           ELSE Built("EnableLog", inp,
                  [EnabledDefault EXCEPT !.enabled = (enabled = 1),
                                         !.err = ERR_CMD_NOT_SUPPORTED])

\* the arm with `>` for `>=` in its size check: a content of exactly the
\* capacity fills the buffer
SetCmdlineOrBootconfig_OffByOne(path, canon, read) ==
    /\ Entry
    /\ LET inp == [path |-> path, canon |-> canon, read |-> read]
       IN  IF ~canon.ok
           THEN LocalExit("SetCmdlineOrBootconfig", inp, RawOsErrorOr1(canon.e),
                          Eprintln("realpath failed"))
           ELSE IF ~read.ok
           THEN LocalExit("SetCmdlineOrBootconfig", inp, RawOsErrorOr1(read.e),
                          Eprintln("Error opening file"))
           ELSE IF Len(read.content) > SUSFS_FAKE_CMDLINE_OR_BOOTCONFIG_SIZE
           THEN LocalExit("SetCmdlineOrBootconfig", inp, EINVAL,
                          Eprintln("file_size too long"))
           ELSE Built("SetCmdlineOrBootconfig", inp,
                  [fake_cmdline_or_bootconfig |->
                      [i \in 1..SUSFS_FAKE_CMDLINE_OR_BOOTCONFIG_SIZE |->
                          IF i <= Len(read.content) THEN read.content[i] ELSE 0],
                   err |-> ERR_CMD_NOT_SUPPORTED])

\* canon is fs::canonicalize(&path), read is fs::read(&abs_path)
SetCmdlineOrBootconfig(path, canon, read) ==
    /\ Entry
    /\ LET inp == [path |-> path, canon |-> canon, read |-> read]
       IN  IF ~canon.ok
           THEN LocalExit("SetCmdlineOrBootconfig", inp, RawOsErrorOr1(canon.e),
                          Eprintln("realpath failed"))
           ELSE IF ~read.ok
           THEN LocalExit("SetCmdlineOrBootconfig", inp, RawOsErrorOr1(read.e),
                          Eprintln("Error opening file"))
           ELSE IF Len(read.content) >= SUSFS_FAKE_CMDLINE_OR_BOOTCONFIG_SIZE
           THEN LocalExit("SetCmdlineOrBootconfig", inp, EINVAL,
                          Eprintln("file_size too long"))
           ELSE Built("SetCmdlineOrBootconfig", inp,
                  [fake_cmdline_or_bootconfig |->
                      [i \in 1..SUSFS_FAKE_CMDLINE_OR_BOOTCONFIG_SIZE |->
                          IF i <= Len(read.content) THEN read.content[i] ELSE 0],
                   err |-> ERR_CMD_NOT_SUPPORTED])

\* Path::to_str(): None when the path is not valid UTF-8
ToStr(p) == IF ValidUtf8(p) THEN <<p>> ELSE <<>>

\* a panic (expect / unwrap on Err / None): message on stderr, exit status 101
Panic(o, inp, m) == LocalExit(o, inp, PANIC_EXIT, Eprintln(m))

\* ctarget, credirect are fs::canonicalize of the two paths, mdr is the
\* metadata of the canonical target
AddOpenRedirect(target_path, redirected_path, ctarget, credirect, mdr) ==
    /\ Entry
    /\ LET inp == [target_path |-> target_path, redirected_path |-> redirected_path,
                   ctarget |-> ctarget, credirect |-> credirect, mdr |-> mdr]
           o == "AddOpenRedirect"
       IN  IF ~ctarget.ok THEN Panic(o, inp, "realpath target failed")
           ELSE IF ~credirect.ok THEN Panic(o, inp, "realpath redirect failed")
           ELSE IF ToStr(ctarget.path) = <<>> THEN Panic(o, inp, "unwrap on None")
           ELSE IF ~mdr.ok THEN FetchMetadataExit(o, inp, mdr.e)
           ELSE IF ToStr(credirect.path) = <<>> THEN Panic(o, inp, "unwrap on None")
           ELSE Built(o, inp,
                  [SusfsOpenRedirectDefault EXCEPT
                      !.target_pathname = str_to_c_array(ToStr(ctarget.path)[1], @),
                      !.redirected_pathname =
                          str_to_c_array(ToStr(credirect.path)[1], @),
                      !.target_ino = As64(mdr.md.ino),
                      !.err = ERR_CMD_NOT_SUPPORTED])

\* the arm without its `info.err = ERR_CMD_NOT_SUPPORTED` line
AddSusMap_NoSentinel(path) ==
    /\ Entry
    /\ Built("AddSusMap", [path |-> path],
          [SusfsSusMapDefault EXCEPT
              !.target_pathname = str_to_c_array(path, @)])

AddSusMap(path) ==
    /\ Entry
    /\ Built("AddSusMap", [path |-> path],
          [SusfsSusMapDefault EXCEPT
              !.target_pathname = str_to_c_array(path, @),
              !.err = ERR_CMD_NOT_SUPPORTED])

EnableAvcLogSpoofing(enabled) ==
    /\ Entry
    /\ LET inp == [enabled |-> enabled]
       IN  IF enabled > 1
           THEN LocalExit("EnableAvcLogSpoofing", inp, 1, <<>>)
           ELSE Built("EnableAvcLogSpoofing", inp,
                  [EnabledDefault EXCEPT !.enabled = (enabled = 1),
                                         !.err = ERR_CMD_NOT_SUPPORTED])

ShowVersion ==
    /\ Entry
    /\ Built("ShowVersion", [info_type |-> "Version"],
          [susfs_version |-> Zeroed(SUSFS_MAX_VERSION_BUFSIZE),
           err |-> ERR_CMD_NOT_SUPPORTED])

ShowEnabledFeatures ==
    /\ Entry
    /\ Built("ShowEnabledFeatures", [info_type |-> "EnabledFeatures"],
          [enabled_features |-> Zeroed(SUSFS_ENABLED_FEATURES_SIZE),
           err |-> ERR_CMD_NOT_SUPPORTED])

ShowVariant ==
    /\ Entry
    /\ Built("ShowVariant", [info_type |-> "Variant"],
          [susfs_variant |-> Zeroed(SUSFS_MAX_VARIANT_BUFSIZE),
           err |-> ERR_CMD_NOT_SUPPORTED])

\* the twelve spoofable values, in the order the arm parses them
KstatFields ==
    <<"ino", "dev", "nlink", "size", "atime", "atime_nsec", "mtime", "mtime_nsec",
      "ctime", "ctime_nsec", "blocks", "blksize">>

\* the type of md.<field>() (nlink is passed `as u64`), which fixes T in parse_or_default
KstatFieldType(f) ==
    IF f \in {"atime", "atime_nsec", "mtime", "mtime_nsec", "ctime", "ctime_nsec"}
    THEN "i64" ELSE "u64"

\* a holds the twelve string arguments
AddSusKstatStatically(path, mdr, a) ==
    /\ Entry
    /\ LET inp == [path |-> path, mdr |-> mdr, args |-> a]
           o == "AddSusKstatStatically"
       IN  IF ~mdr.ok THEN FetchMetadataExit(o, inp, mdr.e)
           ELSE
           LET md == mdr.md
               s_ino == parse_or_default(a.ino, md.ino, "u64")
               s_dev == parse_or_default(a.dev, md.dev, "u64")
               s_nlink == parse_or_default(a.nlink, md.nlink, "u64")
               s_size == parse_or_default(a.size, md.size, "u64")
               s_atime == parse_or_default(a.atime, md.atime, "i64")
               s_atime_nsec == parse_or_default(a.atime_nsec, md.atime_nsec, "i64")
               s_mtime == parse_or_default(a.mtime, md.mtime, "i64")
               s_mtime_nsec == parse_or_default(a.mtime_nsec, md.mtime_nsec, "i64")
               s_ctime == parse_or_default(a.ctime, md.ctime, "i64")
               s_ctime_nsec == parse_or_default(a.ctime_nsec, md.ctime_nsec, "i64")
               s_blocks == parse_or_default(a.blocks, md.blocks, "u64")
               s_blksize == parse_or_default(a.blksize, md.blksize, "u64")
           IN  IF <<>> \in {s_ino, s_dev, s_nlink, s_size, s_atime, s_atime_nsec,
                            s_mtime, s_mtime_nsec, s_ctime, s_ctime_nsec,
                            s_blocks, s_blksize}
               THEN LocalExit(o, inp, EINVAL, Eprintln("Invalid number format"))
               ELSE Built(o, inp,
                      [SusfsSusKstatDefault EXCEPT
                          !.target_ino = As64(md.ino),
                          !.is_statically = TRUE,
                          !.target_pathname = str_to_c_array(path, @),
                          !.spoofed_ino = As64(s_ino[1]),
                          !.spoofed_dev = As64(s_dev[1]),
                          !.spoofed_nlink = AsCUInt(s_nlink[1]),
                          !.spoofed_size = As64(s_size[1]),
                          !.spoofed_atime_tv_sec = As64(s_atime[1]),
                          !.spoofed_mtime_tv_sec = As64(s_mtime[1]),
                          !.spoofed_ctime_tv_sec = As64(s_ctime[1]),
                          !.spoofed_atime_tv_nsec = As64(s_atime_nsec[1]),
                          !.spoofed_mtime_tv_nsec = As64(s_mtime_nsec[1]),
                          !.spoofed_ctime_tv_nsec = As64(s_ctime_nsec[1]),
                          !.spoofed_blksize = As64(s_blksize[1]),
                          !.spoofed_blocks = As64(s_blocks[1]),
                          !.err = ERR_CMD_NOT_SUPPORTED])

(***************************************************************************)
(* susfs_ctl and the callee                                                *)
(***************************************************************************)
\* the statuses the callee may write
Statuses == {0, ERR_CMD_NOT_SUPPORTED, 1, 256} \cup {-e : e \in 1..MaxErrno}

\* s followed by zero bytes up to N
Padded(s, N) == [i \in 1..N |-> IF i <= Len(s) THEN s[i] ELSE 0]

\* what the callee may leave in a query buffer of capacity N: "v1.5.2", "1.5.2",
\* nothing, N bytes without a zero byte, "v" and e-acute, a stray 0xFF, a
\* sequence cut by the end of the buffer
KernelTexts(N) ==
    {Padded(<<CH_V, 49, 46, 53, 46, 50>>, N),
     Padded(<<49, 46, 53, 46, 50>>, N),
     Zeroed(N),
     [i \in 1..N |-> CH_V],
     Padded(<<CH_V, 195, 169>>, N),
     Padded(<<CH_V, 255>>, N),
     [i \in 1..N |-> IF i < N THEN CH_V ELSE 195]}

\* the name of the record's buffer the callee fills for a query
ShowField(o) ==
    CASE o = "ShowVersion" -> "susfs_version"
      [] o = "ShowEnabledFeatures" -> "enabled_features"
      [] o = "ShowVariant" -> "susfs_variant"

\* what the callee may do with the memory it is handed: nothing (callee absent,
\* command unknown), or write a status and, for a query answered with 0, a text
KernelReplies(o, rec) ==
    {[touch |-> FALSE]}
        \cup {[touch |-> TRUE, err |-> e, text |-> <<>>] : e \in Statuses \ {0}}
        \cup IF o \in ShowOps
             THEN {[touch |-> TRUE, err |-> 0, text |-> <<t>>] :
                       t \in KernelTexts(Len(rec[ShowField(o)]))}
             ELSE {[touch |-> TRUE, err |-> 0, text |-> <<>>]}

\* the record after the callee's write
KernelWrite(o, rec, r) ==
    IF r.text = <<>> THEN [rec EXCEPT !.err = r.err]
    ELSE [rec EXCEPT !.err = r.err, ![ShowField(o)] = r.text[1]]

\* susfs_ctl(&mut info, cmd): one syscall(SYS_reboot, KSU_INSTALL_MAGIC1,
\* SUSFS_MAGIC, cmd, info as *mut T); its return value is dropped.  The callee
\* writes through the pointer it receives: into the record when that is what
\* the pointer addresses, into the memory around the Box otherwise.
susfs_ctl ==
    /\ pc = "built"
    /\ outcome = "running"
    /\ calls' = Append(calls, [nr |-> "SYS_reboot", magic1 |-> KSU_INSTALL_MAGIC1,
                               magic2 |-> SUSFS_MAGIC, cmd |-> CmdOf(op),
                               arg |-> ArgOf(op)])
    /\ \E r \in KernelReplies(op, info) :
          IF ~r.touch THEN UNCHANGED <<info, kernelWrote, stray>>
          ELSE IF ArgOf(op) = "record"
          THEN /\ info' = KernelWrite(op, info, r)
               /\ kernelWrote' = TRUE
               /\ UNCHANGED stray
          ELSE /\ stray' = TRUE
               /\ UNCHANGED <<info, kernelWrote>>
    /\ pc' = "sent"
    /\ UNCHANGED <<op, input, statusRead, out, outcome, exitArg>>
    /\ UNCHANGED uvars

(***************************************************************************)
(* After the call: handle_result and, for Show, the text                   *)
(***************************************************************************)
Println(t) == <<[stream |-> "stdout", msg |-> "text", text |-> t, newline |-> TRUE]>>

PrintNoNewline(t) == <<[stream |-> "stdout", msg |-> "text", text |-> t, newline |-> FALSE]>>

\* the Show block without the starts_with('v') test of the version arm
ShowOutput_NoVTest(o, rec) ==
    IF o \notin ShowOps \/ rec.err # 0 THEN <<>>
    ELSE CASE o = "ShowVersion" -> Println(DecodeText(rec.susfs_version))
           [] o = "ShowEnabledFeatures" ->
                PrintNoNewline(DecodeText(rec.enabled_features))
           [] o = "ShowVariant" ->
                Println(DecodeText(rec.susfs_variant))

\* the `if info.err == 0 { ... }` block of the three Show arms
ShowOutput(o, rec) ==
    IF o \notin ShowOps \/ rec.err # 0 THEN <<>>
    ELSE CASE o = "ShowVersion" ->
                LET ver == DecodeText(rec.susfs_version)
                IN  IF Len(ver) >= 1 /\ ver[1] = CH_V THEN Println(ver)
                    ELSE Println(STR_UNSUPPORT)
           [] o = "ShowEnabledFeatures" ->
                PrintNoNewline(DecodeText(rec.enabled_features))
           [] o = "ShowVariant" ->
                Println(DecodeText(rec.susfs_variant))

\* an arm that calls susfs_ctl again while the status is still the sentinel
Finish_Retry ==
    /\ pc = "sent"
    /\ outcome = "running"
    /\ statusRead' = Append(statusRead, info.err)
    /\ LET h == handle_result(info.err, CmdOf(op))
       IN  IF h.exit # <<>>
           THEN /\ out' = out \o h.printed
                /\ outcome' = "exited"
                /\ exitArg' = h.exit[1]
                /\ pc' = "decoded"
           ELSE IF info.err = ERR_CMD_NOT_SUPPORTED /\ Len(calls) < 2
           THEN /\ out' = out \o h.printed
                /\ pc' = "built"
                /\ UNCHANGED <<outcome, exitArg>>
           ELSE /\ out' = out \o h.printed \o ShowOutput(op, info)
                /\ outcome' = "returned"
                /\ pc' = "decoded"
                /\ UNCHANGED exitArg
    /\ UNCHANGED <<op, input, info, calls, kernelWrote, stray>>
    /\ UNCHANGED uvars

\* handle_result(info.err, cmd) and the rest of the arm
Finish ==
    /\ pc = "sent"
    /\ outcome = "running"
    /\ statusRead' = Append(statusRead, info.err)
    /\ LET h == handle_result(info.err, CmdOf(op))
       IN  IF h.exit # <<>>
           THEN /\ out' = out \o h.printed
                /\ outcome' = "exited"
                /\ exitArg' = h.exit[1]
           ELSE /\ out' = out \o h.printed \o ShowOutput(op, info)
                /\ outcome' = "returned"
                /\ UNCHANGED exitArg
    /\ pc' = "decoded"
    /\ UNCHANGED <<op, input, info, calls, kernelWrote, stray>>
    /\ UNCHANGED uvars

\* A callee that wrote outside the record has overwritten four bytes of the
\* caller's stack: the process may go on as above or be killed by a fault.
Fault ==
    /\ pc = "sent"
    /\ outcome = "running"
    /\ stray
    /\ outcome' = "killed"
    /\ UNCHANGED <<pc, op, input, info, calls, kernelWrote, stray, statusRead, out, exitArg>>
    /\ UNCHANGED uvars

\* the exit status the parent observes after exit(code): the low eight bits
ExitStatus == exitArg % 256

(***************************************************************************)
(* Input domains of the arms and the specification                         *)
(***************************************************************************)
PathArgs == StringsAround(SUSFS_MAX_LEN_PATHNAME)

UnameArgs == StringsAround(NEW_UTS_LEN + 1)

EnabledArgs == 0..MaxEnabled

\* io::Result<PathBuf> of fs::canonicalize: a canonical path (not always UTF-8)
CanonResults ==
    {[ok |-> TRUE, path |-> p] : p \in PathArgs \cup {<<47, 255>>}}
        \cup {[ok |-> FALSE, e |-> e] : e \in IoErrors}

\* io::Result<Vec<u8>> of fs::read
ReadResults ==
    {[ok |-> TRUE, content |-> c] : c \in Contents}
        \cup {[ok |-> FALSE, e |-> e] : e \in IoErrors}

AllDefault == [f \in {KstatFields[i] : i \in 1..12} |-> STR_DEFAULT]

\* md.<field>().to_string(): the real value written out as a literal
RealLiteral(md, f) ==
    IF KstatFieldType(f) = "i64" THEN FormatI64(md[f]) ELSE FormatU64(md[f])

\* literals other than the real value: "7", "+5", "-1", "4294967296" (2^32),
\* "9223372036854775808" (2^63), "18446744073709551616" (2^64), "abc", ""
OtherLiterals ==
    {<<55>>, <<CH_PLUS, 53>>, <<CH_MINUS, 49>>,
     <<52, 50, 57, 52, 57, 54, 55, 50, 57, 54>>,
     <<57, 50, 50, 51, 51, 55, 50, 48, 51, 54, 56, 53, 52, 55, 55, 53, 56, 48, 56>>,
     <<49, 56, 52, 52, 54, 55, 52, 52, 48, 55, 51, 55, 48, 57, 53, 53, 49, 54, 49, 54>>,
     <<97, 98, 99>>, <<>>}

\* argument vectors: all "default", all real literals, and one field set to a
\* literal while the others stay "default"
KstatArgs(md) ==
    {AllDefault, [f \in DOMAIN AllDefault |-> RealLiteral(md, f)]}
        \cup UNION {{[AllDefault EXCEPT ![f] = v] :
                        v \in {RealLiteral(md, f)} \cup OtherLiterals} :
                    f \in DOMAIN AllDefault}

Next ==
    \/ \E p \in PathArgs, m \in MetadataResults : AddSusPath(p, m)
    \/ \E p \in PathArgs, m \in MetadataResults : AddSusPathLoop(p, m)
    \/ \E p \in PathArgs : SetAndroidDataRootPath(p)
    \/ \E p \in PathArgs : SetSdcardRootPath(p)
    \/ \E e \in EnabledArgs : HideSusMntsForNonSuProcs(e)
    \/ \E p \in PathArgs, m \in MetadataResults : AddSusKstat(p, m)
    \/ \E p \in PathArgs, m \in MetadataResults : UpdateSusKstat(p, m)
    \/ \E p \in PathArgs, m \in MetadataResults : UpdateSusKstatFullClone(p, m)
    \/ \E r \in UnameArgs, v \in UnameArgs : SetUname(r, v)
    \/ \E e \in EnabledArgs : EnableLog(e)
    \/ \E c \in CanonResults, r \in ReadResults :
          SetCmdlineOrBootconfig(Str(1, 1), c, r)
    \/ \E ct \in CanonResults, cr \in CanonResults, m \in MetadataResults :
          AddOpenRedirect(Str(1, 1), Str(1, 2), ct, cr, m)
    \/ \E p \in PathArgs : AddSusMap(p)
    \/ \E e \in EnabledArgs : EnableAvcLogSpoofing(e)
    \/ ShowVersion
    \/ ShowEnabledFeatures
    \/ ShowVariant
    \/ \E p \in PathArgs, m \in MetadataResults :
          \E a \in (IF m.ok THEN KstatArgs(m.md) ELSE {AllDefault}) :
              AddSusKstatStatically(p, m, a)
    \/ susfs_ctl
    \/ Finish
    \/ Fault

Spec == Init /\ [][Next]_vars

(***************************************************************************)
(* umount.rs: the JSON allow-list of unmount targets                       *)
(***************************************************************************)
\* number of mount points tried as unmount targets
MaxUmountPaths == 2

\* largest flags value tried
MaxUmountFlag == 1

\* target paths, named by their number
UmountPaths == 1..MaxUmountPaths

UmountFlags == 0..MaxUmountFlag

\* Config.paths: HashMap<String, u32>
UmountMaps == UNION {[d -> UmountFlags] : d \in SUBSET UmountPaths}

\* the file at UMOUNT_CONFIG_PATH: absent, present without being the JSON of a
\* Config (or unreadable), or the JSON of a Config
ConfigFiles ==
    {[kind |-> "missing", paths |-> EmptyMap], [kind |-> "garbage", paths |-> EmptyMap]}
        \cup {[kind |-> "json", paths |-> m] : m \in UmountMaps}

\* HashMap::insert
MapInsert(m, k, v) == [x \in DOMAIN m \cup {k} |-> IF x = k THEN v ELSE m[x]]

\* HashMap::remove
MapRemove(m, k) == [x \in DOMAIN m \ {k} |-> m[x]]

\* the (path, flags) entries of a map
Entries(m) == {<<k, m[k]>> : k \in DOMAIN m}

InitUmount ==
    /\ pc = "start"
    /\ op = "none"
    /\ input = [none |-> TRUE]
    /\ info = NoRecord
    /\ calls = <<>>
    /\ kernelWrote = FALSE
    /\ stray = FALSE
    /\ statusRead = <<>>
    /\ out = <<>>
    /\ outcome = "running"
    /\ exitArg = 0
    /\ cfgFile \in ConfigFiles
    /\ umountList = EmptyMap
    /\ requested = cfgFile.paths
    /\ ucall = "none"
    /\ ures = "none"
    /\ replayed = {}
    /\ replayCount = 0

\* an umount function returns r without having touched the kernel's list
UmountReturn(f, r) ==
    /\ ucall' = f
    /\ ures' = r
    /\ UNCHANGED <<cfgFile, umountList, requested, replayed, replayCount>>

\* load_umount_config(): done is the set of entries whose umount_list_add
\* succeeded before the first one that failed (all of them when none failed);
\* a HashMap is walked in no particular order
load_umount_config(done) ==
    /\ UNCHANGED svars
    /\ IF cfgFile.kind = "missing" THEN UmountReturn("load", "Ok")
       ELSE IF cfgFile.kind = "garbage" THEN UmountReturn("load", "Err")
       ELSE /\ done \subseteq DOMAIN cfgFile.paths
            /\ ucall' = "load"
            /\ ures' = (IF done = DOMAIN cfgFile.paths THEN "Ok" ELSE "Err")
            /\ umountList' =
                  [x \in DOMAIN umountList \cup done |->
                      IF x \in done THEN cfgFile.paths[x] ELSE umountList[x]]
            /\ replayed' = {<<k, cfgFile.paths[k]>> : k \in done}
            /\ replayCount' = Cardinality(done)
            /\ UNCHANGED <<cfgFile, requested>>

\* add_umount(target_path, flags): kok tells whether ksucalls::umount_list_add
\* succeeds.  json_raw is a local that is dropped on return: the file stays
\* as it was.
add_umount(target_path, flags, kok) ==
    /\ UNCHANGED svars
    /\ IF cfgFile.kind = "missing" THEN UmountReturn("add", "Ok")
       ELSE IF cfgFile.kind = "garbage" THEN UmountReturn("add", "Err")
       ELSE IF ~kok THEN UmountReturn("add", "Err")
       ELSE /\ ucall' = "add"
            /\ ures' = "Ok"
            /\ umountList' = MapInsert(umountList, target_path, flags)
            /\ requested' = MapInsert(requested, target_path, flags)
            /\ UNCHANGED <<cfgFile, replayed, replayCount>>

\* del_umount(target_path): kok tells whether ksucalls::umount_list_del succeeds
del_umount(target_path, kok) ==
    /\ UNCHANGED svars
    /\ IF cfgFile.kind = "missing" THEN UmountReturn("del", "Ok")
       ELSE IF cfgFile.kind = "garbage" THEN UmountReturn("del", "Err")
       ELSE IF ~kok THEN UmountReturn("del", "Err")
       ELSE /\ ucall' = "del"
            /\ ures' = "Ok"
            /\ umountList' = MapRemove(umountList, target_path)
            /\ requested' = MapRemove(requested, target_path)
            /\ UNCHANGED <<cfgFile, replayed, replayCount>>

NextUmount ==
    \/ \E done \in SUBSET UmountPaths : load_umount_config(done)
    \/ \E p \in UmountPaths, f \in UmountFlags, kok \in BOOLEAN : add_umount(p, f, kok)
    \/ \E p \in UmountPaths, kok \in BOOLEAN : del_umount(p, kok)

SpecUmount == InitUmount /\ [][NextUmount]_vars

(***************************************************************************)
(* Properties                                                              *)
(***************************************************************************)
\* the identifiers of cli.rs:13-29
CommandIds ==
    {CMD_SUSFS_ADD_SUS_PATH, CMD_SUSFS_SET_ANDROID_DATA_ROOT_PATH,
     CMD_SUSFS_SET_SDCARD_ROOT_PATH, CMD_SUSFS_ADD_SUS_PATH_LOOP,
     CMD_SUSFS_HIDE_SUS_MNTS_FOR_NON_SU_PROCS, CMD_SUSFS_ADD_SUS_KSTAT,
     CMD_SUSFS_UPDATE_SUS_KSTAT, CMD_SUSFS_ADD_SUS_KSTAT_STATICALLY,
     CMD_SUSFS_SET_UNAME, CMD_SUSFS_ENABLE_LOG, CMD_SUSFS_SET_CMDLINE_OR_BOOTCONFIG,
     CMD_SUSFS_ADD_OPEN_REDIRECT, CMD_SUSFS_SHOW_VERSION,
     CMD_SUSFS_SHOW_ENABLED_FEATURES, CMD_SUSFS_SHOW_VARIANT,
     CMD_SUSFS_ENABLE_AVC_LOG_SPOOFING, CMD_SUSFS_ADD_SUS_MAP}

\* the operation has issued its transport call
Called == Len(calls) >= 1

\* the other operations whose arm sends the identifier this run has sent
SameIdOps == {o \in Operations \ {op} : CmdOf(o) = calls[1].cmd}

\* C1 (as stated): the operation -> identifier mapping is total and injective:
\* the identifier an operation sends is one of the table, and no other
\* operation sends it.
C1_TotalInjective ==
    Called => calls[1].cmd \in CommandIds /\ SameIdOps = {}

\* C1 (amended): the mapping is total, and injective except that
\* UpdateSusKstat and UpdateSusKstatFullClone both send
\* CMD_SUSFS_UPDATE_SUS_KSTAT.
C1_InjectiveExceptUpdateKstat ==
    Called =>
        /\ calls[1].cmd \in CommandIds
        /\ \A o \in SameIdOps : {o, op} = {"UpdateSusKstat", "UpdateSusKstatFullClone"}

C1_Witness ==
    /\ Called
    /\ op = "UpdateSusKstatFullClone"
    /\ calls[1].cmd = CMD_SUSFS_UPDATE_SUS_KSTAT
    /\ SameIdOps = {"UpdateSusKstat"}

\* C2: when the transport call is issued the record's status field is 126, and
\* when the callee never writes the record the status read after the call is 126.
C2_SentinelBeforeTransport ==
    /\ pc = "built" => info.err = ERR_CMD_NOT_SUPPORTED
    /\ (pc \in {"sent", "decoded"} /\ ~kernelWrote) => info.err = ERR_CMD_NOT_SUPPORTED
    /\ (pc = "decoded" /\ ~kernelWrote) => statusRead = <<ERR_CMD_NOT_SUPPORTED>>

C2_Witness ==
    /\ pc = "decoded"
    /\ ~kernelWrote
    /\ ~stray
    /\ op = "AddSusMap"
    /\ statusRead = <<ERR_CMD_NOT_SUPPORTED>>

\* the "not supported" lines printed so far
NotSupportedLines == {i \in 1..Len(out) : out[i].msg = "not supported"}

\* C3: decoding depends on the status read after the call only, whatever the
\* operation: 0 is success (nothing reported, no exit), 126 is reported as
\* unsupported with the command identifier that was sent, any other value is a
\* kernel error that leaves through exit with that very value.
C3_DecodeByStatus ==
    pc = "decoded" =>
        LET st == statusRead[1]
        IN  /\ st = info.err
            /\ st = 0 => outcome = "returned" /\ NotSupportedLines = {}
            /\ st = ERR_CMD_NOT_SUPPORTED =>
                  /\ Cardinality(NotSupportedLines) = 1
                  /\ \A i \in NotSupportedLines :
                        out[i].cmd = calls[1].cmd /\ out[i].stream = "stdout"
            /\ st \notin {0, ERR_CMD_NOT_SUPPORTED} =>
                  /\ outcome = "exited"
                  /\ exitArg = st
                  /\ NotSupportedLines = {}

C3_Witness ==
    /\ pc = "decoded"
    /\ kernelWrote
    /\ statusRead = <<-1>>
    /\ outcome = "exited"
    /\ exitArg = -1

\* C4 (as stated): every error outcome ends the operation in failure with a
\* nonzero exit status: a local input error, a status of 126 after the call and
\* any other nonzero status after the call; the operation ends in success only
\* when the status read after the call is 0.
C4_ErrorsEndInFailure ==
    /\ (pc = "start" /\ outcome = "exited") => ExitStatus # 0
    /\ (pc = "decoded" /\ statusRead[1] # 0) => outcome = "exited" /\ ExitStatus # 0
    /\ outcome = "returned" => statusRead = <<0>>

\* a numeric argument of the static-kstat arm that is neither "default" nor a
\* literal of the field's type
BadLiteral(f) ==
    /\ input.args[f] # STR_DEFAULT
    /\ <<>> = (IF KstatFieldType(f) = "i64" THEN ParseI64(input.args[f])
               ELSE ParseU64(input.args[f]))

\* the run's inputs hold a local input error: a boolean argument outside {0,1},
\* a path whose metadata or canonical form cannot be obtained (or is not text),
\* an unreadable or oversized payload file, a malformed numeric literal
LocalInputError ==
    CASE op \in EnableOps -> input.enabled > 1
      [] op \in PathOps \cup DynamicKstatOps -> ~input.mdr.ok
      [] op = "AddSusKstatStatically" ->
            \/ ~input.mdr.ok
            \/ \E f \in DOMAIN input.args : BadLiteral(f)
      [] op = "SetCmdlineOrBootconfig" ->
            \/ ~input.canon.ok
            \/ ~input.read.ok
            \/ Len(input.read.content) >= SUSFS_FAKE_CMDLINE_OR_BOOTCONFIG_SIZE
      [] op = "AddOpenRedirect" ->
            \/ ~input.ctarget.ok
            \/ ~input.credirect.ok
            \/ ~input.mdr.ok
            \/ ~ValidUtf8(input.ctarget.path)
            \/ ~ValidUtf8(input.credirect.path)
      [] OTHER -> FALSE

\* C5: in a run whose inputs hold a local input error no transport call is
\* ever issued: the operation has left through a nonzero exit before susfs_ctl.
C5_NoTransportAfterLocalError ==
    LocalInputError =>
        /\ calls = <<>>
        /\ pc = "start"
        /\ outcome = "exited"
        /\ exitArg # 0

C5_Witness ==
    /\ op = "HideSusMntsForNonSuProcs"
    /\ input.enabled = 2
    /\ outcome = "exited"
    /\ exitArg = 1
    /\ calls = <<>>

\* C6: an operation is one request/response transaction: it goes from start to
\* built to sent to decoded and never back, the one transport call is issued on
\* the step from built to sent, the status is read once, on the step from sent
\* to decoded, and no second call follows whatever the status.
C6_Step ==
    /\ pc' # pc =>
          <<pc, pc'>> \in {<<"start", "built">>, <<"built", "sent">>, <<"sent", "decoded">>}
    /\ calls' # calls => pc = "built" /\ pc' = "sent" /\ calls' = Append(calls, calls'[1])
    /\ Len(calls') = (IF pc' \in {"sent", "decoded"} THEN 1 ELSE 0)
    /\ statusRead' # statusRead => pc = "sent" /\ pc' = "decoded"
    /\ Len(statusRead') = (IF pc' = "decoded" THEN 1 ELSE 0)
    /\ pc' = "decoded" => statusRead'[1] = info'.err

C6_SingleTransaction == [][C6_Step]_vars

C6_Witness ==
    /\ pc = "decoded"
    /\ Len(calls) = 1
    /\ kernelWrote
    /\ statusRead = <<ERR_CMD_NOT_SUPPORTED>>
    /\ outcome = "returned"

\* the strings the run's arm has encoded with str_to_c_array, each with the
\* buffer it went into
EncodedStrings ==
    CASE op \in PathOps \cup ExternalDirOps \cup DynamicKstatOps
                \cup {"AddSusMap", "AddSusKstatStatically"} ->
            {<<input.path, info.target_pathname>>}
      [] op = "SetUname" ->
            {<<input.release, info.release>>, <<input.version, info.version>>}
      [] op = "AddOpenRedirect" ->
            {<<input.ctarget.path, info.target_pathname>>,
             <<input.credirect.path, info.redirected_pathname>>}
      [] OTHER -> {}

\* C7: a string s encoded into a truncating buffer of capacity N leaves the first
\* min(len(s), N-1) bytes of s followed by a zero byte; scanning the buffer to
\* its first zero byte gives s back when len(s) < N-1 and the (N-1)-byte prefix
\* of s otherwise.
C7_TruncatingEncode ==
    pc # "start" =>
        \A e \in EncodedStrings :
            LET s == e[1]
                buf == e[2]
                N == Len(buf)
                n == Min(Len(s), N - 1)
            IN  /\ N \in {SUSFS_MAX_LEN_PATHNAME, NEW_UTS_LEN + 1}
                /\ SubSeq(buf, 1, n) = SubSeq(s, 1, n)
                /\ buf[n + 1] = 0
                /\ BytesToNul(buf) = (IF Len(s) < N - 1 THEN s ELSE SubSeq(s, 1, N - 1))

C7_Witness ==
    /\ op = "SetUname"
    /\ pc = "built"
    /\ Len(input.release) > NEW_UTS_LEN + 1
    /\ Len(input.version) < NEW_UTS_LEN
    /\ BytesToNul(info.release) = SubSeq(input.release, 1, NEW_UTS_LEN)
    /\ BytesToNul(info.version) = input.version

\* C8: the cmdline/bootconfig payload is never cut short: a content of 8192
\* bytes or more ends the operation with EINVAL ("file_size too long") and no
\* transport call; a shorter content is in the buffer whole, followed by a
\* zero byte.
C8_PayloadFitsOrRejected ==
    (op = "SetCmdlineOrBootconfig" /\ input.canon.ok /\ input.read.ok) =>
        LET content == input.read.content
        IN  IF Len(content) >= SUSFS_FAKE_CMDLINE_OR_BOOTCONFIG_SIZE
            THEN /\ outcome = "exited"
                 /\ exitArg = EINVAL
                 /\ calls = <<>>
                 /\ pc = "start"
                 /\ \E i \in 1..Len(out) :
                       out[i].stream = "stderr" /\ out[i].msg = "file_size too long"
            ELSE /\ pc # "start"
                 /\ Len(info.fake_cmdline_or_bootconfig)
                       = SUSFS_FAKE_CMDLINE_OR_BOOTCONFIG_SIZE
                 /\ SubSeq(info.fake_cmdline_or_bootconfig, 1, Len(content)) = content
                 /\ info.fake_cmdline_or_bootconfig[Len(content) + 1] = 0

C8_Witness ==
    /\ op = "SetCmdlineOrBootconfig"
    /\ pc = "sent"
    /\ input.canon.ok
    /\ input.read.ok
    /\ Len(input.read.content) = SUSFS_FAKE_CMDLINE_OR_BOOTCONFIG_SIZE - 1
    /\ info.fake_cmdline_or_bootconfig[SUSFS_FAKE_CMDLINE_OR_BOOTCONFIG_SIZE] = 0

\* the record field that carries spoofable value f
SpoofedField(rec, f) ==
    CASE f = "ino" -> rec.spoofed_ino
      [] f = "dev" -> rec.spoofed_dev
      [] f = "nlink" -> rec.spoofed_nlink
      [] f = "size" -> rec.spoofed_size
      [] f = "atime" -> rec.spoofed_atime_tv_sec
      [] f = "atime_nsec" -> rec.spoofed_atime_tv_nsec
      [] f = "mtime" -> rec.spoofed_mtime_tv_sec
      [] f = "mtime_nsec" -> rec.spoofed_mtime_tv_nsec
      [] f = "ctime" -> rec.spoofed_ctime_tv_sec
      [] f = "ctime_nsec" -> rec.spoofed_ctime_tv_nsec
      [] f = "blocks" -> rec.spoofed_blocks
      [] f = "blksize" -> rec.spoofed_blksize

\* the real metadata value of f in the width of its record field (the link
\* count is a 32-bit field and a 32-bit value)
RealField(md, f) == IF f = "nlink" THEN <<md.nlink[1], md.nlink[2]>> ELSE md[f]

\* the value a zeroed record carries in field f
ZeroField(f) == IF f = "nlink" THEN <<0, 0>> ELSE ZERO64

KstatFieldSet == {KstatFields[i] : i \in 1..Len(KstatFields)}

\* C9: in AddSusKstatStatically each field given as "default" and each field
\* given as the literal of the path's real metadata value is encoded as that
\* real value, whatever the other eleven arguments are; such arguments are
\* never rejected.
C9_DefaultEqualsRealLiteral ==
    (op = "AddSusKstatStatically" /\ input.mdr.ok) =>
        LET md == input.mdr.md
            a == input.args
            Real(f) == a[f] \in {STR_DEFAULT, RealLiteral(md, f)}
        IN  /\ (\A f \in KstatFieldSet : Real(f)) => pc # "start"
            /\ pc # "start" =>
                  \A f \in KstatFieldSet :
                      Real(f) => SpoofedField(info, f) = RealField(md, f)

C9_Witness ==
    /\ op = "AddSusKstatStatically"
    /\ pc = "built"
    /\ input.mdr.ok
    /\ input.mdr.md = MdWide
    /\ \A f \in KstatFieldSet : input.args[f] = RealLiteral(MdWide, f)
    /\ \A f \in KstatFieldSet : SpoofedField(info, f) = RealField(MdWide, f)

\* C10 (as stated): every stat-spoofing record sent in dynamic mode (AddSusKstat,
\* UpdateSusKstat, UpdateSusKstatFullClone) carries all twelve spoofed fields
\* copied from the real metadata of the target path.
C10_DynamicCopiesAllTwelve ==
    (op \in DynamicKstatOps /\ Called) =>
        /\ ~info.is_statically
        /\ \A f \in KstatFieldSet :
              SpoofedField(info, f) = RealField(input.mdr.md, f)

\* C10 (amended): of the records sent in dynamic mode, that of AddSusKstat
\* carries all twelve spoofed fields copied from the real metadata; that of
\* UpdateSusKstat carries the real size and block count and zero in the other
\* ten; that of UpdateSusKstatFullClone carries zero in all twelve.
C10_DynamicCopiesPerOperation ==
    (op \in DynamicKstatOps /\ Called) =>
        LET copied == CASE op = "AddSusKstat" -> KstatFieldSet
                        [] op = "UpdateSusKstat" -> {"size", "blocks"}
                        [] op = "UpdateSusKstatFullClone" -> {}
        IN  /\ ~info.is_statically
            /\ info.target_ino = input.mdr.md.ino
            /\ \A f \in KstatFieldSet :
                  SpoofedField(info, f) =
                      (IF f \in copied THEN RealField(input.mdr.md, f) ELSE ZeroField(f))

C10_Witness ==
    /\ op = "UpdateSusKstat"
    /\ Called
    /\ input.mdr.md = MdWide
    /\ info.spoofed_size = MdWide.size
    /\ info.spoofed_blocks = MdWide.blocks
    /\ info.spoofed_ino = ZERO64

\* the texts printed on stdout, in order
DisplayedTexts ==
    LET IsText(e) == e.msg = "text"
        texts == SelectSeq(out, IsText)
    IN  [i \in 1..Len(texts) |-> texts[i].text]

\* the bytes of a query buffer before its first zero byte; the whole buffer
\* when it holds no zero byte
RawText(buf) ==
    IF \A i \in 1..Len(buf) : buf[i] # 0 THEN buf
    ELSE LET z == CHOOSE i \in 1..Len(buf) :
                     buf[i] = 0 /\ \A j \in 1..(i - 1) : buf[j] # 0
         IN  [i \in 1..(z - 1) |-> buf[i]]

BeginsWithV(t) == Len(t) >= 1 /\ t[1] = CH_V

\* a version query has been answered with status 0 and decoded
VersionAnswered == op = "ShowVersion" /\ pc = "decoded" /\ statusRead = <<0>>

\* C11 (as stated): for the version query with status 0 the bytes before the
\* first zero byte are displayed if and only if they begin with 'v', otherwise
\* "unsupport" is displayed; either way the operation ends in success.
C11_VersionShownIffLeadingV ==
    VersionAnswered =>
        LET t == RawText(info.susfs_version)
        IN  /\ outcome = "returned"
            /\ DisplayedTexts = <<IF BeginsWithV(t) THEN t ELSE STR_UNSUPPORT>>

\* C11 (amended): for the version query with status 0 the bytes before the
\* first zero byte are displayed if and only if they are valid UTF-8 and begin
\* with 'v'; otherwise (no leading 'v', or bytes that are not valid text)
\* "unsupport" is displayed; either way the operation ends in success.
C11_VersionShownIffValidLeadingV ==
    VersionAnswered =>
        LET t == RawText(info.susfs_version)
        IN  /\ outcome = "returned"
            /\ DisplayedTexts =
                  <<IF ValidUtf8(t) /\ BeginsWithV(t) THEN t ELSE STR_UNSUPPORT>>

C11_Witness ==
    /\ VersionAnswered
    /\ info.susfs_version = Padded(<<CH_V, 255>>, SUSFS_MAX_VERSION_BUFSIZE)
    /\ DisplayedTexts = <<STR_UNSUPPORT>>
    /\ outcome = "returned"

\* C12: a query (version, enabled features, variant) answered with status 0
\* whose bytes before the first zero byte are not valid text does not fail: the
\* placeholder "<invalid>" stands for the text (shown as it is by the features
\* and variant queries, and as "unsupport" by the version query, whose rule it
\* does not pass) and the operation ends in success; a buffer without a zero
\* byte is taken whole, up to its capacity.
C12_InvalidTextIsReplaced ==
    (op \in ShowOps /\ pc = "decoded" /\ statusRead = <<0>>) =>
        LET buf == info[ShowField(op)]
            raw == RawText(buf)
            text == IF ValidUtf8(raw) THEN raw ELSE STR_INVALID
        IN  /\ outcome = "returned"
            /\ (\A i \in 1..Len(buf) : buf[i] # 0) => Len(raw) = Len(buf)
            /\ DisplayedTexts =
                  <<IF op = "ShowVersion" /\ ~BeginsWithV(text) THEN STR_UNSUPPORT
                    ELSE text>>

C12_Witness ==
    /\ op = "ShowEnabledFeatures"
    /\ pc = "decoded"
    /\ statusRead = <<0>>
    /\ \A i \in 1..SUSFS_ENABLED_FEATURES_SIZE : info.enabled_features[i] # 0
    /\ ~ValidUtf8(info.enabled_features)
    /\ DisplayedTexts = <<STR_INVALID>>
    /\ outcome = "returned"

\* C13 (as stated): while the config file exists, its path -> flags map is the
\* initial map with every successfully added path inserted and every
\* successfully deleted path removed, and a load_umount_config that succeeds
\* has replayed umount_list_add exactly once for each such entry.
C13_ConfigPersistsTargets ==
    cfgFile.kind = "json" =>
        /\ cfgFile.paths = requested
        /\ (ucall = "load" /\ ures = "Ok") =>
              /\ replayed = Entries(requested)
              /\ replayCount = Cardinality(DOMAIN requested)

\* C14 (as stated): the address handed to the transport call is the address of
\* the record that was encoded and whose status is read afterwards, for the
\* boxed records too, so that what the callee writes through that address is
\* what the decoder reads: no write of the callee lands outside the record.
C14_TransportGetsRecordAddress ==
    /\ Called => calls[1].arg = "record"
    /\ ~stray

\* an optional sign followed by one or more decimal digits
WellFormedLiteral(s) ==
    LET first == IF Len(s) >= 1 /\ s[1] \in {CH_PLUS, CH_MINUS} THEN 2 ELSE 1
    IN  /\ Len(s) >= first
        /\ \A i \in first..Len(s) : IsDigit(s[i])

\* the digits of a well-formed literal without sign and leading zeros
Magnitude(s) ==
    LET first == IF s[1] \in {CH_PLUS, CH_MINUS} THEN 2 ELSE 1
        nz == {i \in first..Len(s) : s[i] # CH_0}
    IN  IF nz = {} THEN <<CH_0>>
        ELSE SubSeq(s, CHOOSE i \in nz : \A j \in nz : i <= j, Len(s))

\* m <= b for two digit strings without leading zeros
DecLE(m, b) ==
    \/ Len(m) < Len(b)
    \/ /\ Len(m) = Len(b)
       /\ \A i \in 1..Len(m) : (\A j \in 1..(i - 1) : m[j] = b[j]) => m[i] <= b[i]

\* "18446744073709551615" (u64::MAX)
DEC_U64_MAX ==
    <<49, 56, 52, 52, 54, 55, 52, 52, 48, 55, 51, 55, 48, 57, 53, 53, 49, 54, 49, 53>>

\* "9223372036854775807" (i64::MAX)
DEC_I64_MAX ==
    <<57, 50, 50, 51, 51, 55, 50, 48, 51, 54, 56, 53, 52, 55, 55, 53, 56, 48, 55>>

\* "9223372036854775808" (-i64::MIN)
DEC_I64_MIN_MAGNITUDE ==
    <<57, 50, 50, 51, 51, 55, 50, 48, 51, 54, 56, 53, 52, 55, 55, 53, 56, 48, 56>>

\* the value of well-formed literal s lies in the range of the type argument f
\* is parsed as: u64 (no minus sign) or i64
InParseRange(f, s) ==
    IF KstatFieldType(f) = "u64"
    THEN s[1] # CH_MINUS /\ DecLE(Magnitude(s), DEC_U64_MAX)
    ELSE IF s[1] = CH_MINUS THEN DecLE(Magnitude(s), DEC_I64_MIN_MAGNITUDE)
    ELSE DecLE(Magnitude(s), DEC_I64_MAX)

\* the value of the digits from position i on, modulo 2^64
RECURSIVE WrapDigits(_, _, _)
WrapDigits(s, i, acc) ==
    IF i > Len(s) THEN acc
    ELSE WrapDigits(s, i + 1, MulAdd(acc, 10, s[i] - CH_0).limbs)

\* the value of well-formed literal s modulo 2^64
ValueMod64(s) ==
    IF s[1] = CH_MINUS THEN Neg64(WrapDigits(s, 2, ZERO64))
    ELSE WrapDigits(s, IF s[1] = CH_PLUS THEN 2 ELSE 1, ZERO64)

\* a 64-bit pattern cut to the width of the record field of f
ToFieldWidth(v, f) == IF f = "nlink" THEN <<v[1], v[2]>> ELSE v

\* "4294967295" (c_uint::MAX)
DEC_U32_MAX == <<52, 50, 57, 52, 57, 54, 55, 50, 57, 53>>

\* argument s of f is a literal whose value is above the largest value of the
\* record field of f (c_uint for nlink, u64 or i64 for the others)
ExceedsWidth(f, s) ==
    /\ s # STR_DEFAULT
    /\ WellFormedLiteral(s)
    /\ s[1] # CH_MINUS
    /\ ~DecLE(Magnitude(s),
              IF f = "nlink" THEN DEC_U32_MAX
              ELSE IF KstatFieldType(f) = "u64" THEN DEC_U64_MAX
              ELSE DEC_I64_MAX)

\* a static-kstat run with real metadata whose twelve arguments are "default"
\* or well-formed literals
StaticWellFormed ==
    /\ op = "AddSusKstatStatically"
    /\ input.mdr.ok
    /\ \A f \in KstatFieldSet :
          input.args[f] = STR_DEFAULT \/ WellFormedLiteral(input.args[f])

\* the literal arguments are encoded as their value modulo 2^width
LiteralsWrapped ==
    \A f \in KstatFieldSet :
        input.args[f] # STR_DEFAULT =>
            SpoofedField(info, f) = ToFieldWidth(ValueMod64(input.args[f]), f)

\* C15 (as stated): numeric fields get no range validation beyond width
\* truncation: in AddSusKstatStatically a well-formed numeric literal is never
\* rejected as a local input error, however large; the encoded field is the
\* value modulo 2^width.
C15_NoRangeValidation ==
    (StaticWellFormed /\ \E f \in KstatFieldSet : ExceedsWidth(f, input.args[f]))
        => pc # "start" /\ LiteralsWrapped

\* C15 (amended): a well-formed literal within the range of the type its
\* argument is parsed as (u64 for ino, dev, nlink, size, blocks and blksize, i64
\* for the six timestamp values) is not rejected, even when it exceeds the
\* width of its field (the 32-bit link count): the encoded field is the value
\* modulo 2^width.  A literal outside the range of that type ends the
\* operation with EINVAL before any transport call.
C15_RangeOfParseTypeOnly ==
    StaticWellFormed =>
        IF \A f \in KstatFieldSet :
              input.args[f] = STR_DEFAULT \/ InParseRange(f, input.args[f])
        THEN pc # "start" /\ LiteralsWrapped
        ELSE /\ pc = "start"
             /\ outcome = "exited"
             /\ exitArg = EINVAL
             /\ calls = <<>>

\* "4294967296" (2^32) as the link count: sent as 0
C15_Witness ==
    /\ op = "AddSusKstatStatically"
    /\ Called
    /\ input.args.nlink = <<52, 50, 57, 52, 57, 54, 55, 50, 57, 54>>
    /\ ValueMod64(input.args.nlink) = <<0, 0, 1, 0>>
    /\ info.spoofed_nlink = <<0, 0>>

====
